---- MODULE Spec2Model ----
(***************************************************************************)
(* A model of magi_core.py: three agents, each an external inference       *)
(* process, are invoked concurrently in two rounds (call_agent under       *)
(* asyncio.gather), round 2 being fed a bridge prompt built from the       *)
(* round-1 results; the merged results are then reported.                  *)
(*                                                                         *)
(* Python dicts are records; a dict whose iteration order matters is a     *)
(* sequence of [k, v] items.  A JSON value is a tagged record.  Numbers    *)
(* with a fractional part (confidence) are in hundredths.                  *)
(***************************************************************************)
EXTENDS Integers, Sequences, FiniteSets, TLC

VARIABLES
    mainPc,          \* position of main(): start, cycle, report, done, crashed, hung
    user_prompt,     \* the directive main() obtained
    phase,           \* position of run_magi_cycle()
    taskPc,          \* taskPc[r][a]: position of the round-r call_agent task of agent a
    proc,            \* proc[r][a]: the external process of that task
    observed,        \* observed[r][a]: what that process did, as call_agent saw it
    result,          \* result[r][a]: what that task returned or raised
    results_r1_map,  \* run_magi_cycle's results_r1_map (ordered dict)
    bridge,          \* the prompts handed to the round-2 tasks (ordered dict)
    final_results,   \* run_magi_cycle's return value
    out,             \* the lines printed so far, as tags
    fnArgs,          \* arguments of the function under study (function specifications)
    fnResult,        \* its result
    spawns,          \* spawns[r][a]: the processes that task has started
    lastSettled      \* the agent whose call ended most recently

vars == <<mainPc, user_prompt, phase, taskPc, proc, observed, result,
          results_r1_map, bridge, final_results, out, fnArgs, fnResult,
         spawns, lastSettled>>

(***************************************************************************)
(* Configuration                                                           *)
(***************************************************************************)
AGENTS == << [name |-> "melchior-1",  model |-> "melchior-1"],
             [name |-> "balthasar-2", model |-> "balthasar-2"],
             [name |-> "casper-3",    model |-> "casper-3"] >>

TIMEOUT_SECONDS == 120

\* the literal 3 of `len(results_r1_map) < 3`
QUORUM == 3

\* the thresholds of lines 178, 180 and 182, in hundredths
APPROVAL == 70
MAJORITY == 50
DEADLOCK == 30

Roster == {AGENTS[i].name : i \in 1..Len(AGENTS)}

Rounds == {1, 2}

(***************************************************************************)
(* Bounds of the model                                                     *)
(***************************************************************************)
\* measured elapsed times of a completed call are 1..MaxElapsed
MaxElapsed == 2

ElapsedValues == 1..MaxElapsed

\* a directive from argv holding a byte that is no UTF-8: Python keeps it as
\* a lone surrogate, which str.encode() rejects
Undecoded == "evacuate\\udcff"

Directives == {"", "evacuate", Undecoded}

\* a lone surrogate in a JSON string, which json.loads accepts
LoneSurrogate == "\\ud800"

\* the text holds the sub-text
Contains(text, sub) ==
    \E i \in 1..(Len(text) - Len(sub) + 1) : SubSeq(text, i, i + Len(sub) - 1) = sub

\* lines 35 and 162: str.encode() and print() reject a text that holds a lone
\* surrogate
Encodable(text) == ~Contains(text, "\\udcff") /\ ~Contains(text, LoneSurrogate)

\* the local user_prompt before main() assigns it
Unbound == "<unbound>"

\* the report is studied on lists of up to MaxReportLen results
MaxReportLen == 3

(***************************************************************************)
(* JSON values and the sample outputs of the external process              *)
(***************************************************************************)
JObject(fields) == [kind |-> "object", obj |-> fields]
JArray(items)   == [kind |-> "array", items |-> items]
JString(s)      == [kind |-> "string", str |-> s]
JNumber(n)      == [kind |-> "number", num |-> n]
JNull           == [kind |-> "null"]

DocFull    == JObject([claim |-> "c1", confidence |-> 65, failure_modes |-> <<"f1", "f2">>])
DocNoModes == JObject([claim |-> "c2", confidence |-> 90])
DocNoConf  == JObject([claim |-> "c3", failure_modes |-> <<"f1">>])
DocNoClaim == JObject([confidence |-> 80])
DocLegacy  == JObject([response |-> "r"])
DocEmpty   == JObject(<<>>)
DocArray   == JArray(<<"claim">>)
DocString  == JString("abc")
DocNumber  == JNumber(42)
DocSurrogate == JObject([claim |-> LoneSurrogate, confidence |-> 80])
DocSurrogateModes == JObject([claim |-> "c1", confidence |-> 65,
                              failure_modes |-> <<LoneSurrogate>>])

TextFull    == "{\"claim\": \"c1\", \"confidence\": 0.65, \"failure_modes\": [\"f1\", \"f2\"]}"
TextNoModes == "{\"claim\": \"c2\", \"confidence\": 0.9}"
TextNoConf  == "{\"claim\": \"c3\", \"failure_modes\": [\"f1\"]}"
TextNoClaim == "{\"confidence\": 0.8}"
TextLegacy  == "{\"response\": \"r\"}"
TextEmptyObj == "{}"
TextArray   == "[\"claim\"]"
TextString  == "\"abc\""
TextNumber  == "42"
TextNull    == "null"
TextSurrogate == "{\"claim\": \"\\ud800\", \"confidence\": 0.8}"
TextSurrogateModes == "{\"claim\": \"c1\", \"confidence\": 0.65, \"failure_modes\": [\"\\ud800\"]}"
TextGarbage == "not json"
TextCut     == "{\"claim\": "
TextNothing == ""

\* json.loads on the sample texts: the parsed value, or the message of the
\* JSONDecodeError
json_loads(text) ==
    CASE text = TextFull     -> [ok |-> TRUE, value |-> DocFull]
      [] text = TextNoModes  -> [ok |-> TRUE, value |-> DocNoModes]
      [] text = TextNoConf   -> [ok |-> TRUE, value |-> DocNoConf]
      [] text = TextNoClaim  -> [ok |-> TRUE, value |-> DocNoClaim]
      [] text = TextLegacy   -> [ok |-> TRUE, value |-> DocLegacy]
      [] text = TextEmptyObj -> [ok |-> TRUE, value |-> DocEmpty]
      [] text = TextArray    -> [ok |-> TRUE, value |-> DocArray]
      [] text = TextString   -> [ok |-> TRUE, value |-> DocString]
      [] text = TextNumber   -> [ok |-> TRUE, value |-> DocNumber]
      [] text = TextNull     -> [ok |-> TRUE, value |-> JNull]
      [] text = TextSurrogate -> [ok |-> TRUE, value |-> DocSurrogate]
      [] text = TextSurrogateModes -> [ok |-> TRUE, value |-> DocSurrogateModes]
      [] text = TextCut      -> [ok |-> FALSE, msg |-> "Expecting value: line 1 column 11 (char 10)"]
      [] OTHER               -> [ok |-> FALSE, msg |-> "Expecting value: line 1 column 1 (char 0)"]

\* Captured bytes: the text they decode to, and whether every byte decodes
\* (utf8 = FALSE: the bytes are those of text plus a stray 0xFF, which
\* decode(errors="ignore") drops and a strict decode() rejects)
Bytes(text, utf8) == [text |-> text, utf8 |-> utf8]

\* str.strip() on the sample diagnostics
strip(s) ==
    CASE s = "boom\n"              -> "boom"
      [] s = " model not found \n" -> "model not found"
      [] OTHER                     -> s

\* str.upper() on the roster names
upper(s) ==
    CASE s = "melchior-1"  -> "MELCHIOR-1"
      [] s = "balthasar-2" -> "BALTHASAR-2"
      [] s = "casper-3"    -> "CASPER-3"
      [] OTHER             -> s

\* ', '.join(seq) for a list of strings
RECURSIVE join(_)
join(seq) ==
    IF Len(seq) = 0 THEN ""
    ELSE IF Len(seq) = 1 THEN seq[1]
    ELSE seq[1] \o ", " \o join(Tail(seq))

(***************************************************************************)
(* Ordered dicts                                                           *)
(***************************************************************************)
Item(k, v) == [k |-> k, v |-> v]

Keys(d) == {d[i].k : i \in 1..Len(d)}

Lookup(d, k) == d[CHOOSE i \in 1..Len(d) : d[i].k = k].v

\* dict.get(key, default) on a record
get(rec, key, default) == IF key \in DOMAIN rec THEN rec[key] ELSE default

(***************************************************************************)
(* call_agent: the outcome of a process that ran to completion             *)
(***************************************************************************)
Return(outcome) == [kind |-> "return", outcome |-> outcome]
Raise(exc)      == [kind |-> "raise", exc |-> exc]

\* `"claim" in parsed`: defined for objects, arrays and strings only
SupportsIn(parsed) == parsed.kind \in {"object", "array", "string"}

\* lines 39-57, after communicate() returned within the timeout
call_agent_completed(name, returncode, stdout, stderr, elapsed) ==
    IF returncode # 0
    THEN IF stderr.utf8
         THEN Return([agent |-> name, status |-> "error",
                      error |-> strip(stderr.text), latency |-> elapsed])
         ELSE Raise("UnicodeDecodeError")
    ELSE LET parsed == json_loads(stdout.text) IN
         IF parsed.ok
         THEN IF SupportsIn(parsed.value)
              THEN Return([agent |-> name, status |-> "ok",
                           output |-> parsed.value, latency |-> elapsed])
              ELSE Raise("TypeError")
         ELSE IF stdout.utf8
              THEN Return([agent |-> name, status |-> "invalid_json",
                           raw |-> stdout.text, error |-> parsed.msg,
                           latency |-> elapsed])
              ELSE Raise("UnicodeDecodeError")

\* line 66
call_agent_timeout(name) ==
    Return([agent |-> name, status |-> "timeout", latency |-> TIMEOUT_SECONDS])

(***************************************************************************)
(* create_bridge_prompt                                                    *)
(***************************************************************************)
EmptyDict == JObject(<<>>)

\* lines 79-87: the report block of one peer
PeerBlock(name, data) ==
    LET output == get(data, "output", EmptyDict) IN
    [node           |-> upper(name),
     claim          |-> get(output.obj, "claim", "No claim provided"),
     confidence     |-> get(output.obj, "confidence", 0),
     failure_modes  |-> join(get(output.obj, "failure_modes", <<>>))]

\* `output.get` exists on dicts only
HasGet(data) == get(data, "output", EmptyDict).kind = "object"

\* a loop that does not skip the agent's own entry
Others_KeepSelf(agent_name, results_map) == results_map

\* the items the loop does not skip
Others(agent_name, results_map) ==
    SelectSeq(results_map, LAMBDA it : it.k # agent_name)

create_bridge_prompt(agent_name, original_prompt, results_map) ==
    LET others == Others(agent_name, results_map) IN
    IF \E i \in 1..Len(others) : ~HasGet(others[i].v)
    THEN Raise("AttributeError")
    ELSE [kind     |-> "return",
          original |-> original_prompt,
          blocks   |-> [i \in 1..Len(others) |-> PeerBlock(others[i].k, others[i].v)]]

(***************************************************************************)
(* What the external process can do                                        *)
(***************************************************************************)
ProcResult(returncode, stdout, stderr, elapsed) ==
    [seen |-> "completed", returncode |-> returncode, stdout |-> stdout,
     stderr |-> stderr, elapsed |-> elapsed]

SawNothing == [seen |-> "nothing"]
SawTimeout == [seen |-> "timeout"]

SampleTexts == {TextFull, TextNoModes, TextNoConf, TextNoClaim, TextLegacy,
                TextEmptyObj, TextArray, TextString, TextNumber, TextNull,
                TextGarbage, TextCut, TextNothing, TextSurrogate,
                TextSurrogateModes}

SampleStdouts == {Bytes(t, TRUE) : t \in SampleTexts}
                     \cup {Bytes(TextGarbage, FALSE), Bytes(TextFull, FALSE)}

SampleStderrs == {Bytes(t, TRUE) : t \in {"", "boom\n", " model not found \n"}}
                     \cup {Bytes("boom\n", FALSE)}

\* a single call is studied on every sample
CallResults ==
    {ProcResult(c, so, se, e) : c \in {0, 1}, so \in SampleStdouts,
                                se \in SampleStderrs, e \in ElapsedValues}

\* a session of six calls on a part of them
SessionResults ==
    {ProcResult(0, Bytes(t, TRUE), Bytes("", TRUE), 1) :
        t \in {TextFull, TextArray, TextNumber, TextGarbage, TextSurrogate,
                TextSurrogateModes}}
    \cup {ProcResult(1, Bytes(TextFull, TRUE), Bytes("boom\n", u), 1) :
             u \in BOOLEAN}

(***************************************************************************)
(* State                                                                   *)
(***************************************************************************)
NoResult == [kind |-> "none"]

Unset == [kind |-> "unset"]
None  == [kind |-> "None"]
List(items) == [kind |-> "list", items |-> items]

EveryTask(v) == [r \in Rounds |-> [a \in Roster |-> v]]

SessionInit ==
    /\ mainPc = "start"
    /\ user_prompt = Unbound
    /\ phase = "NotStarted"
    /\ taskPc = EveryTask("unstarted")
    /\ proc = EveryTask("none")
    /\ observed = EveryTask(SawNothing)
    /\ result = EveryTask(NoResult)
    /\ results_r1_map = <<>>
    /\ bridge = <<>>
    /\ final_results = Unset
    /\ out = <<>>
    /\ spawns = EveryTask(0)
    /\ lastSettled = "nobody"

Init ==
    /\ SessionInit
    /\ fnArgs = Unset
    /\ fnResult = Unset

sessionVars == <<mainPc, user_prompt, phase, results_r1_map, bridge,
                 final_results, out>>

fnVars == <<fnArgs, fnResult>>

(***************************************************************************)
(* call_agent, one task of one round                                       *)
(***************************************************************************)
\* the round whose tasks run_magi_cycle is awaiting
Awaited(r, a) ==
    \/ phase = "Round1Pending" /\ r = 1
    \/ phase = "Round2Pending" /\ r = 2
    \/ phase = "DirectCall" /\ r = 1 /\ a = fnArgs.name
    \/ /\ phase = "Raised"
       /\ mainPc \in {"unwinding", "hung"}
       /\ taskPc[r][a] # "unstarted"

\* a prompt that is a plain text
Text(text) == [kind |-> "text", text |-> text]

\* lines 104 and 119-121: the prompt a call was given, the directive in round
\* 1 and the agent's bridge prompt in round 2
Prompt(r, a) ==
    IF phase = "DirectCall" THEN Text(fnArgs.prompt)
    ELSE IF r = 1 THEN Text(user_prompt)
    ELSE Lookup(bridge, a)

\* line 35: prompt.encode(); a bridge prompt holds the directive and, for
\* each peer, its name, its claim and its failure modes (lines 84-87 and 90)
Encodes(prompt) ==
    IF prompt.kind = "text" THEN Encodable(prompt.text)
    ELSE /\ Encodable(prompt.original)
         /\ \A i \in 1..Len(prompt.blocks) :
               /\ Encodable(prompt.blocks[i].node)
               /\ Encodable(prompt.blocks[i].claim)
               /\ Encodable(prompt.blocks[i].failure_modes)

Finish(r, a, res) ==
    /\ lastSettled' = a
    /\ result' = [result EXCEPT ![r][a] = res]
    /\ taskPc' = [taskPc EXCEPT ![r][a] =
                     IF res.kind = "return" THEN "returned" ELSE "raised"]

\* a call that starts over after a timeout
Launchable_Retry(r, a) ==
    \/ taskPc[r][a] = "unstarted"
    \/ /\ taskPc[r][a] = "returned"
       /\ result[r][a].outcome.status = "timeout"

\* line 17: a call runs its body once, from the top
Launchable(r, a) == taskPc[r][a] = "unstarted"

\* lines 22-32: create_subprocess_exec starts the process and waits for its
\* pipes, or raises when the executable cannot be started; only
\* asyncio.TimeoutError is handled
Launch(r, a) ==
    /\ Awaited(r, a)
    /\ Launchable(r, a)
    /\ \/ /\ proc' = [proc EXCEPT ![r][a] = "running"]
          /\ spawns' = [spawns EXCEPT ![r][a] = @ + 1]
          /\ taskPc' = [taskPc EXCEPT ![r][a] = "spawning"]
          /\ UNCHANGED <<result, lastSettled>>
       \/ /\ Finish(r, a, Raise("FileNotFoundError"))
          /\ UNCHANGED <<proc, spawns>>
    /\ UNCHANGED <<observed, sessionVars, fnVars>>

\* lines 23, 34-35: the pipes of the new process are connected and
\* create_subprocess_exec hands the process to call_agent, which encodes the
\* prompt for communicate(); UnicodeEncodeError is not handled and the
\* process is left as it is
Spawned(r, a) ==
    /\ Awaited(r, a)
    /\ taskPc[r][a] = "spawning"
    /\ IF Encodes(Prompt(r, a))
       THEN /\ taskPc' = [taskPc EXCEPT ![r][a] = "communicate"]
            /\ UNCHANGED <<result, lastSettled>>
       ELSE Finish(r, a, Raise("UnicodeEncodeError"))
    /\ UNCHANGED <<proc, observed, sessionVars, fnVars, spawns>>

\* the process ends by itself
ProcExit(r, a) ==
    /\ proc[r][a] = "running"
    /\ proc' = [proc EXCEPT ![r][a] = "exited"]
    /\ UNCHANGED <<taskPc, observed, result, sessionVars, fnVars, spawns, lastSettled>>

\* asyncio's child watcher, a thread of its own for each process, collects
\* the exit status of a process that ended or was killed, whatever the call
\* and the event loop are doing
Reap(r, a) ==
    /\ proc[r][a] \in {"exited", "killed"}
    /\ proc' = [proc EXCEPT ![r][a] = "reaped"]
    /\ UNCHANGED <<taskPc, observed, result, sessionVars, fnVars, spawns, lastSettled>>

\* lines 34-57: the call is resumed with what communicate() collected from
\* the process that has ended
Completes(r, a, results) ==
    /\ taskPc[r][a] = "communicate"
    /\ proc[r][a] = "reaped"
    /\ \E pr \in results :
          /\ observed' = [observed EXCEPT ![r][a] = pr]
          /\ Finish(r, a, call_agent_completed(a, pr.returncode, pr.stdout,
                                               pr.stderr, pr.elapsed))

\* lines 34-57: communicate() returned within the timeout
Complete(r, a, results) ==
    /\ Awaited(r, a)
    /\ Completes(r, a, results)
    /\ UNCHANGED <<proc, sessionVars, fnVars, spawns>>

\* a timeout that kills every process of the round still running
TimeoutFire_KillAll(r, a) ==
    /\ Awaited(r, a)
    /\ taskPc[r][a] = "communicate"
    /\ observed' = [observed EXCEPT ![r][a] = SawTimeout]
    /\ IF proc[r][a] = "reaped"
       THEN /\ Finish(r, a, call_agent_timeout(a))
            /\ UNCHANGED proc
       ELSE /\ proc' = [proc EXCEPT ![r] =
                           [b \in Roster |-> IF proc[r][b] = "running"
                                              THEN "killed" ELSE proc[r][b]]]
            /\ taskPc' = [taskPc EXCEPT ![r][a] = "reaping"]
            /\ UNCHANGED <<result, lastSettled>>
    /\ UNCHANGED <<sessionVars, fnVars, spawns>>

\* lines 34-37, 59-66: wait_for gives up; the process is killed unless it is
\* gone already (ProcessLookupError), in which case the call returns at once
TimeoutFire(r, a) ==
    /\ Awaited(r, a)
    /\ taskPc[r][a] = "communicate"
    /\ observed' = [observed EXCEPT ![r][a] = SawTimeout]
    /\ IF proc[r][a] = "reaped"
       THEN /\ Finish(r, a, call_agent_timeout(a))
            /\ UNCHANGED proc
       ELSE /\ proc' = [proc EXCEPT ![r][a] =
                           IF @ = "running" THEN "killed" ELSE @]
            /\ taskPc' = [taskPc EXCEPT ![r][a] = "reaping"]
            /\ UNCHANGED <<result, lastSettled>>
    /\ UNCHANGED <<sessionVars, fnVars, spawns>>

\* a timeout branch that returns without awaiting process.wait()
TimeoutReap_NoWait(r, a) ==
    /\ Awaited(r, a)
    /\ taskPc[r][a] = "reaping"
    /\ Finish(r, a, call_agent_timeout(a))
    /\ UNCHANGED <<proc, observed, sessionVars, fnVars, spawns>>

\* lines 63-66: process.wait() returns once the exit status of the process
\* has been collected, and the call returns the timeout outcome
TimeoutReap(r, a) ==
    /\ Awaited(r, a)
    /\ taskPc[r][a] = "reaping"
    /\ proc[r][a] = "reaped"
    /\ Finish(r, a, call_agent_timeout(a))
    /\ UNCHANGED <<proc, observed, sessionVars, fnVars, spawns>>

\* a task that is cancelled: inside create_subprocess_exec (line 23) asyncio
\* kills the new process and waits for it before the cancellation goes on,
\* unless the exit status of the process is known already; a second
\* cancellation ends that wait; later CancelledError passes through call_agent,
\* which handles asyncio.TimeoutError only, so the process is left as it is
Cancelled(pc, p) ==
    CASE pc \in {"returned", "raised"}     -> pc
      [] pc = "spawning" /\ p # "reaped" -> "cancelling"
      [] OTHER                            -> "cancelled"

\* the process of a task that is cancelled
CancelledProc(pc, p) == IF pc = "spawning" /\ p = "running" THEN "killed" ELSE p

\* line 23: a call cancelled inside create_subprocess_exec ends once the
\* process it had started is collected
CancelDone(r, a) ==
    /\ Awaited(r, a)
    /\ taskPc[r][a] = "cancelling"
    /\ proc[r][a] = "reaped"
    /\ taskPc' = [taskPc EXCEPT ![r][a] = "cancelled"]
    /\ UNCHANGED <<proc, observed, result, sessionVars, fnVars, spawns, lastSettled>>

(***************************************************************************)
(* run_magi_cycle                                                          *)
(***************************************************************************)
\* a gather that hands back as soon as one task has returned
GatherReady_Any(r) == \E a \in Roster : taskPc[r][a] = "returned"

\* asyncio.gather without return_exceptions hands back the results in the
\* order of the tasks once every task has returned
GatherReady(r) == \A a \in Roster : taskPc[r][a] = "returned"

\* the results of the tasks that returned, the last task first
Gathered_Reversed(r) ==
    LET done == SelectSeq(AGENTS, LAMBDA ag : taskPc[r][ag.name] = "returned") IN
    [i \in 1..Len(done) |-> result[r][done[Len(done) + 1 - i].name].outcome]

\* the results of the tasks that returned, in the order of the tasks
Gathered(r) ==
    LET done == SelectSeq(AGENTS, LAMBDA ag : taskPc[r][ag.name] = "returned") IN
    [i \in 1..Len(done) |-> result[r][done[i].name].outcome]

\* a map of every round-1 result, ok or not
OkMap_All(results_list) ==
    [i \in 1..Len(results_list) |-> Item(results_list[i].agent, results_list[i])]

\* line 108: {r['agent']: r for r in results_r1_list if r['status'] == 'ok'}
OkMap(results_list) ==
    LET oks == SelectSeq(results_list, LAMBDA o : o.status = "ok") IN
    [i \in 1..Len(oks) |-> Item(oks[i].agent, oks[i])]

\* a quorum of two
QuorumMissed_Two(map) == Len(map) < QUORUM - 1

\* line 110
QuorumMissed(map) == Len(map) < QUORUM

\* prompts built from a map that holds the entry of the call that ended last
\* in front of the others
BridgePrompts_AsSettled(prompt, map) ==
    LET first == SelectSeq(map, LAMBDA it : it.k = lastSettled)
        rest == SelectSeq(map, LAMBDA it : it.k # lastSettled)
    IN  [i \in 1..Len(AGENTS) |->
            Item(AGENTS[i].name,
                 create_bridge_prompt(AGENTS[i].name, prompt, first \o rest))]

\* lines 117-121: the prompts of the round-2 tasks, in roster order
BridgePrompts(prompt, map) ==
    [i \in 1..Len(AGENTS) |->
        Item(AGENTS[i].name, create_bridge_prompt(AGENTS[i].name, prompt, map))]

\* the prompts built before one raises
BuiltBefore(prompts) ==
    LET bad == {i \in 1..Len(prompts) : prompts[i].v.kind = "raise"} IN
    IF bad = {} THEN prompts
    ELSE SubSeq(prompts, 1, (CHOOSE i \in bad : \A j \in bad : i <= j) - 1)

\* a merge that takes every round-2 result as it is
MergeOne_NoFallback(r2, map) == Return(r2)

\* lines 129-134: the entry of one round-2 result; results_r1_map[...] raises
\* KeyError on a missing key
Falls(r2) == r2.status # "ok"

MergeOne(r2, map) ==
    IF ~Falls(r2) THEN Return(r2)
    ELSE IF r2.agent \in Keys(map) THEN Return(Lookup(map, r2.agent))
    ELSE Raise("KeyError")

\* lines 126-136: the list returned, or the exception of the first entry that
\* raises
Merge(results_r2_list, map) ==
    LET ones == [i \in 1..Len(results_r2_list) |-> MergeOne(results_r2_list[i], map)]
        bad == {i \in 1..Len(ones) : ones[i].kind = "raise"}
    IN  IF bad = {} THEN List([i \in 1..Len(ones) |-> ones[i].outcome])
        ELSE ones[CHOOSE i \in bad : \A j \in bad : i <= j]

\* line 133: one warning per failed node, up to the one whose lookup raises
Warnings(results_r2_list, map) ==
    LET bad == {i \in 1..Len(results_r2_list) :
                   MergeOne(results_r2_list[i], map).kind = "raise"}
        upto == IF bad = {} THEN Len(results_r2_list)
                ELSE CHOOSE i \in bad : \A j \in bad : i <= j
        failed == SelectSeq(SubSeq(results_r2_list, 1, upto), Falls)
    IN  [i \in 1..Len(failed) |-> "WARNING: " \o failed[i].agent]

\* lines 105-124: every round-1 task has returned; quorum, bridge prompts and
\* the round-2 tasks
Round1Gather ==
    /\ phase = "Round1Pending"
    /\ GatherReady(1)
    /\ LET map == OkMap(Gathered(1))
           prompts == BridgePrompts(user_prompt, map)
           built == BuiltBefore(prompts)
       IN  /\ results_r1_map' = map
           /\ IF QuorumMissed(map)
              THEN /\ out' = out \o <<"CRITICAL ERROR">>
                   /\ phase' = "QuorumFailed"
                   /\ final_results' = None
                   /\ mainPc' = "report"
                   /\ UNCHANGED bridge
              ELSE IF Len(built) < Len(prompts)
              THEN /\ out' = out \o <<"ROUND 1 COMPLETE">>
                   /\ phase' = "Raised"
                   /\ final_results' = prompts[Len(built) + 1].v
                   /\ mainPc' = "crashed"
                   /\ bridge' = built
              ELSE /\ out' = out \o <<"ROUND 1 COMPLETE", "INITIALIZING ROUND 2">>
                   /\ phase' = "Round2Pending"
                   /\ bridge' = prompts
                   /\ UNCHANGED <<final_results, mainPc>>
    /\ UNCHANGED <<user_prompt, taskPc, proc, observed, result, fnVars, spawns, lastSettled>>

\* lines 124-136: every round-2 task has returned; merge and return
Round2Gather ==
    /\ phase = "Round2Pending"
    /\ GatherReady(2)
    /\ LET merged == Merge(Gathered(2), results_r1_map) IN
          /\ final_results' = merged
          /\ phase' = IF merged.kind = "list" THEN "Returned" ELSE "Raised"
          /\ mainPc' = IF merged.kind = "list" THEN "report" ELSE "crashed"
    /\ out' = out \o Warnings(Gathered(2), results_r1_map)
    /\ UNCHANGED <<user_prompt, taskPc, proc, observed, result, results_r1_map,
                   bridge, fnVars, spawns, lastSettled>>

\* lines 105, 124: a task raised, which gather learns once every task of the
\* round has made its first step; gather passes the exception on and
\* run_magi_cycle passes it on to asyncio.run (line 200). The other tasks of
\* the round are still pending and go on until they are cancelled
GatherRaise(r) ==
    /\ phase = IF r = 1 THEN "Round1Pending" ELSE "Round2Pending"
    /\ \A a \in Roster : taskPc[r][a] # "unstarted"
    /\ \E a \in Roster :
          /\ taskPc[r][a] = "raised"
          /\ final_results' = result[r][a]
    /\ phase' = "Raised"
    /\ mainPc' = "unwinding"
    /\ UNCHANGED <<user_prompt, taskPc, proc, observed, result, results_r1_map,
                   bridge, out, fnVars, spawns, lastSettled>>

\* line 200: asyncio.run cancels every task still pending, and each of them
\* is resumed with CancelledError at its own turn. A task cancelled inside
\* create_subprocess_exec ends at once when the exit status of its process is
\* known, and otherwise waits for the process it kills: the wait ends when
\* the pipes of the process had just been connected, and never ends when the
\* task that connects them is still pending, for that task is cancelled in
\* the same sweep and asyncio.run waits for ever. A task cancelled when its
\* communicate() has finished is not cancelled: wait_for (lines 34-37) hands
\* the result of communicate() back and the call goes on to its end
CancelPending(r, a) ==
    /\ phase = "Raised"
    /\ mainPc \in {"unwinding", "hung"}
    /\ taskPc[r][a] \in {"spawning", "communicate", "reaping"}
    /\ \/ /\ taskPc' = [taskPc EXCEPT ![r][a] = Cancelled(@, proc[r][a])]
          /\ proc' = [proc EXCEPT ![r][a] = CancelledProc(taskPc[r][a], @)]
          /\ UNCHANGED <<mainPc, observed, result, lastSettled>>
       \/ /\ taskPc[r][a] = "spawning"
          /\ proc[r][a] # "reaped"
          /\ taskPc' = [taskPc EXCEPT ![r][a] = "stranded"]
          /\ proc' = [proc EXCEPT ![r][a] = CancelledProc(taskPc[r][a], @)]
          /\ mainPc' = "hung"
          /\ UNCHANGED <<observed, result, lastSettled>>
       \/ /\ Completes(r, a, SessionResults)
          /\ UNCHANGED <<mainPc, proc>>
    /\ UNCHANGED <<user_prompt, phase, results_r1_map, bridge, final_results,
                   out, fnVars, spawns>>

\* line 200: every task has ended, asyncio.run closes the loop and main()
\* ends with the exception
RunEnds ==
    /\ phase = "Raised"
    /\ mainPc = "unwinding"
    /\ \A r \in Rounds, a \in Roster :
          taskPc[r][a] \in {"unstarted", "returned", "raised", "cancelled"}
    /\ mainPc' = "crashed"
    /\ UNCHANGED <<user_prompt, phase, taskPc, proc, observed, result,
                   results_r1_map, bridge, final_results, out, fnVars, spawns,
                   lastSettled>>

(***************************************************************************)
(* Python floats                                                           *)
(*                                                                         *)
(* The confidences are decimal literals with two places, and a double near *)
(* h/100 is held as [h, d], standing for h/100 + d * 2^-59 / 25 exactly.   *)
(* In the units of d the doubles of one binade are the multiples of        *)
(* 25 * 2^k, so that the literal, the sum and the comparison round as IEEE *)
(* 754 round-to-nearest-even does, in small integers.                      *)
(***************************************************************************)
RECURSIVE Pow2(_)
Pow2(n) == IF n = 0 THEN 1 ELSE 2 * Pow2(n - 1)

RECURSIVE Pow2Mod25(_)
Pow2Mod25(n) == IF n = 0 THEN 1 ELSE (2 * Pow2Mod25(n - 1)) % 25

Float(h, d) == [h |-> h, d |-> d]

Zero == Float(0, 0)

\* k with the doubles around [h, d] spaced 25 * 2^k apart: the binade
\* [2^j, 2^(j+1)) has k = j + 7
Binade(h, d) ==
    LET ks == {k \in 0..12 : \/ h * 64 > 50 * Pow2(k)
                             \/ h * 64 = 50 * Pow2(k) /\ d >= 0}
    IN  CHOOSE k \in ks : \A m \in ks : m <= k

Spacing(h, d) == 25 * Pow2(Binade(h, d))

\* the place of [h, d] between the doubles, modulo two spacings
Place(h, d) ==
    LET k == Binade(h, d) IN
    (h * Pow2(k + 1) * Pow2Mod25(56 - k) + d) % (50 * Pow2(k))

\* round-to-nearest, ties to the even double
RoundFloat(h, d) ==
    IF h = 0 /\ d = 0 THEN Zero
    ELSE LET m == Spacing(h, d)
             r == Place(h, d) % m
             odd == ((Place(h, d) - r) \div m) % 2 = 1
         IN  IF 2 * r < m \/ (2 * r = m /\ ~odd)
             THEN Float(h, d - r)
             ELSE Float(h, d + m - r)

\* the double of a literal of c hundredths
Literal(c) == RoundFloat(c, 0)

\* x + y
FloatAdd(x, y) == RoundFloat(x.h + y.h, x.d + y.d)

\* the last bit of the double x
OddFloat(x) == (Place(x.h, x.d) \div Spacing(x.h, x.d)) % 2 = 1

\* half the distance from the double t down to the next double
HalfGapBelow(t) == Spacing(t.h, t.d - 1) \div 2

\* total / n >= t, the quotient being rounded as the sum is: it reaches the
\* double t when total / n is above the middle between t and the double
\* below t, or on it when t is the even one of the two
QuotientAtLeast(total, n, t) ==
    IF total.h # n * t.h THEN total.h > n * t.h
    ELSE LET middle == n * (t.d - HalfGapBelow(t)) IN
         IF total.d # middle THEN total.d > middle ELSE ~OddFloat(t)

\* f"{total / n:.4f}", in ten-thousandths; the fifth decimal of a mean of
\* fewer than eight two-place numbers is never a bare 5
Quotient4(total, n) == (2 * 100 * total.h + n) \div (2 * n)

(***************************************************************************)
(* print_magi_report and main                                              *)
(***************************************************************************)
\* `data.get` exists on dicts only
Reportable(res) == get(res, "output", EmptyDict).kind = "object"

\* line 151: the claim of the output, with its default
Claim(res) == get(get(res, "output", EmptyDict).obj, "claim", "N/A")

\* line 152: the confidence of the output, with its default
Confidence(res) == get(get(res, "output", EmptyDict).obj, "confidence", 0)

\* lines 154-158
prefix(agent) ==
    CASE agent = "MELCHIOR-1"  -> "[SCIENTIST]"
      [] agent = "BALTHASAR-2" -> "[MOTHER]"
      [] agent = "CASPER-3"    -> "[WOMAN]"
      [] OTHER                 -> ""

\* lines 160-163: what is printed for one result
Node(res) == [agent |-> upper(res.agent), prefix |-> prefix(upper(res.agent)),
              confidence |-> Confidence(res), claim |-> Claim(res)]

\* lines 143 and 165: total_confidence after the first n results
RECURSIVE total_confidence(_, _)
total_confidence(items, n) ==
    IF n = 0 THEN Zero
    ELSE FloatAdd(total_confidence(items, n - 1), Literal(Confidence(items[n])))

\* lines 144 and 166: valid_nodes after the loop
valid_nodes(items) == Len(items)

\* lines 169-175: the score as printed with four decimals, in ten-thousandths
avg_score4(total, n) == IF n > 0 THEN Quotient4(total, n) ELSE 0

\* avg_score >= c / 100
AtLeast(total, n, c) == IF n > 0 THEN QuotientAtLeast(total, n, Literal(c))
                        ELSE c <= 0

\* lines 177-185
status(total, n) ==
    IF AtLeast(total, n, APPROVAL)
    THEN ">> RESOLUTION: UNANIMOUS APPROVAL <<"
    ELSE IF AtLeast(total, n, MAJORITY)
    THEN ">> RESOLUTION: MAJORITY APPROVAL (CONDITIONAL) <<"
    ELSE IF AtLeast(total, n, DEADLOCK)
    THEN ">> RESOLUTION: DEADLOCK / HUMAN INTERVENTION REQUIRED <<"
    ELSE ">> RESOLUTION: REJECTION <<"

\* line 162: print() of the claim
Printable(res) == Encodable(Claim(res))

\* lines 138-188, as the lines printed, the values behind them and the way
\* the call ends: the header comes first; iterating None raises, and so do
\* a result whose output is not a dict (line 151) and a claim that cannot be
\* printed (line 162, after the lines of the node and of its confidence)
print_magi_report(results) ==
    IF results.kind # "list"
    THEN [lines |-> <<"REPORT HEADER">>, end |-> Raise("TypeError")]
    ELSE LET items == results.items
             bad == {i \in 1..Len(items) :
                        ~Reportable(items[i]) \/ ~Printable(items[i])}
             first == CHOOSE i \in bad : \A j \in bad : i <= j
             shown == IF bad = {} THEN Len(items) ELSE first - 1
             nodes == [i \in 1..shown |-> Node(items[i])]
             titles == [i \in 1..shown |-> "NODE " \o nodes[i].agent]
             total == total_confidence(items, shown)
             n == valid_nodes(items)
         IN  IF bad = {}
             THEN [lines |-> <<"REPORT HEADER">> \o titles
                                \o <<"AGGREGATE CONFIDENCE SCORE", status(total, n)>>,
                   nodes |-> nodes,
                   total_confidence |-> total,
                   valid_nodes |-> n,
                   avg_score |-> avg_score4(total, n),
                   status |-> status(total, n),
                   end |-> Return(None)]
             ELSE IF ~Reportable(items[first])
             THEN [lines |-> <<"REPORT HEADER">> \o titles,
                   nodes |-> nodes,
                   end |-> Raise("AttributeError")]
             ELSE [lines |-> <<"REPORT HEADER">> \o titles
                                \o <<"NODE " \o upper(items[first].agent)>>,
                   nodes |-> nodes,
                   end |-> Raise("UnicodeEncodeError")]

\* a main() that runs the cycle on any directive
EmptyDirective_Never(d) == FALSE

\* line 197: `not user_prompt`
EmptyDirective(d) == d = ""

\* lines 197-200 and 101: an empty directive ends main(); any other starts
\* the cycle, which announces round 1
Directive(d) ==
    /\ user_prompt' = d
    /\ IF EmptyDirective(d)
       THEN /\ mainPc' = "done"
            /\ UNCHANGED <<phase, out>>
       ELSE /\ mainPc' = "cycle"
            /\ phase' = "Round1Pending"
            /\ out' = out \o <<"INITIALIZING ROUND 1">>

\* lines 190-200: the directive comes from the arguments, or main() prints
\* the banner and the prompt and waits in input()
MainStart ==
    /\ mainPc = "start"
    /\ \/ \E d \in Directives : Directive(d)
       \/ /\ out' = out \o <<"MAGI SYSTEM TERMINAL", "INPUT DIRECTIVE">>
          /\ mainPc' = "input"
          /\ UNCHANGED <<user_prompt, phase>>
    /\ UNCHANGED <<taskPc, proc, observed, result, results_r1_map, bridge,
                   final_results, fnVars, spawns, lastSettled>>

\* lines 195-200: input() returns the line that was entered, or raises
\* EOFError when the standard input is at its end
MainInput ==
    /\ mainPc = "input"
    /\ \/ \E d \in Directives : Directive(d)
       \/ /\ mainPc' = "crashed"
          /\ UNCHANGED <<user_prompt, phase, out>>
    /\ UNCHANGED <<taskPc, proc, observed, result, results_r1_map, bridge,
                   final_results, fnVars, spawns, lastSettled>>

\* line 201
MainReport ==
    /\ mainPc = "report"
    /\ LET rep == print_magi_report(final_results) IN
          /\ out' = out \o rep.lines
          /\ mainPc' = IF rep.end.kind = "return" THEN "done" ELSE "crashed"
    /\ UNCHANGED <<user_prompt, phase, taskPc, proc, observed, result,
                   results_r1_map, bridge, final_results, fnVars, spawns, lastSettled>>

(***************************************************************************)
(* The program                                                             *)
(***************************************************************************)
Next ==
    \/ MainStart
    \/ MainInput
    \/ \E r \in Rounds, a \in Roster : Launch(r, a)
    \/ \E r \in Rounds, a \in Roster : Spawned(r, a)
    \/ \E r \in Rounds, a \in Roster : ProcExit(r, a)
    \/ \E r \in Rounds, a \in Roster : Reap(r, a)
    \/ \E r \in Rounds, a \in Roster : Complete(r, a, SessionResults)
    \/ \E r \in Rounds, a \in Roster : TimeoutFire(r, a)
    \/ \E r \in Rounds, a \in Roster : TimeoutReap(r, a)
    \/ Round1Gather
    \/ Round2Gather
    \/ \E r \in Rounds : GatherRaise(r)
    \/ \E r \in Rounds, a \in Roster : CancelPending(r, a)
    \/ \E r \in Rounds, a \in Roster : CancelDone(r, a)
    \/ RunEnds
    \/ MainReport

Spec == Init /\ [][Next]_vars

(***************************************************************************)
(* One call of call_agent, awaited by a caller that may cancel it          *)
(***************************************************************************)
CallArgs(i) == [kind |-> "call", name |-> AGENTS[i].name,
                model |-> AGENTS[i].model, prompt |-> "evacuate"]

CallArgsUndecoded(i) == [CallArgs(i) EXCEPT !.prompt = Undecoded]

CallInit ==
    /\ mainPc = "absent"
    /\ user_prompt = Unbound
    /\ phase = "DirectCall"
    /\ taskPc = EveryTask("unstarted")
    /\ proc = EveryTask("none")
    /\ observed = EveryTask(SawNothing)
    /\ result = EveryTask(NoResult)
    /\ results_r1_map = <<>>
    /\ bridge = <<>>
    /\ final_results = Unset
    /\ out = <<>>
    /\ spawns = EveryTask(0)
    /\ lastSettled = "nobody"
    /\ fnArgs \in {CallArgs(i) : i \in 1..Len(AGENTS)}
                   \cup {CallArgsUndecoded(i) : i \in 1..Len(AGENTS)}
    /\ fnResult = Unset

\* task.cancel() by the caller while the call is pending, a second time too;
\* a call whose communicate() has finished is not cancelled: wait_for (lines
\* 34-37) hands the result of communicate() back and the call goes on
CancelCall(a) ==
    /\ Awaited(1, a)
    /\ taskPc[1][a] \in {"unstarted", "spawning", "cancelling", "communicate",
                         "reaping"}
    /\ \/ /\ taskPc' = [taskPc EXCEPT ![1][a] = Cancelled(@, proc[1][a])]
          /\ proc' = [proc EXCEPT ![1][a] = CancelledProc(taskPc[1][a], @)]
          /\ UNCHANGED <<observed, result, lastSettled>>
       \/ /\ Completes(1, a, CallResults)
          /\ UNCHANGED proc
    /\ UNCHANGED <<sessionVars, fnVars, spawns>>

CallNext ==
    \/ \E a \in Roster : Launch(1, a)
    \/ \E a \in Roster : Spawned(1, a)
    \/ \E a \in Roster : CancelDone(1, a)
    \/ \E a \in Roster : ProcExit(1, a)
    \/ \E a \in Roster : Reap(1, a)
    \/ \E a \in Roster : Complete(1, a, CallResults)
    \/ \E a \in Roster : TimeoutFire(1, a)
    \/ \E a \in Roster : TimeoutReap(1, a)
    \/ \E a \in Roster : CancelCall(a)

CallSpec == CallInit /\ [][CallNext]_vars

(***************************************************************************)
(* create_bridge_prompt on every results mapping over the roster           *)
(***************************************************************************)
\* the outcomes an entry of the mapping can hold for agent a
MapOutcomes(a) ==
    {[agent |-> a, status |-> "ok", output |-> d, latency |-> 1] :
        d \in {DocFull, DocNoModes, DocNoConf, DocNoClaim, DocLegacy, DocArray,
                DocSurrogate}}
    \cup {[agent |-> a, status |-> "error", error |-> "boom", latency |-> 1],
          [agent |-> a, status |-> "timeout", latency |-> TIMEOUT_SECONDS]}

\* the orders in which a dict over a part of the roster can hold its keys
KeyOrders ==
    {ks \in UNION {[1..n -> Roster] : n \in 0..Len(AGENTS)} :
        \A i, j \in 1..Len(ks) : i # j => ks[i] # ks[j]}

MapsOver(ks) ==
    {m \in [1..Len(ks) -> UNION {MapOutcomes(a) : a \in Roster}] :
        \A i \in 1..Len(ks) : m[i].agent = ks[i]}

ResultMaps ==
    UNION {{[i \in 1..Len(ks) |-> Item(ks[i], m[i])] : m \in MapsOver(ks)} :
              ks \in KeyOrders}

BridgeInit ==
    /\ SessionInit
    /\ fnArgs \in {[kind |-> "bridge", agent_name |-> a,
                    original_prompt |-> "evacuate", results_map |-> m] :
                      a \in Roster, m \in ResultMaps}
    /\ fnResult = Unset

BridgeApply ==
    /\ fnArgs.kind = "bridge"
    /\ fnResult = Unset
    /\ fnResult' = create_bridge_prompt(fnArgs.agent_name,
                                        fnArgs.original_prompt,
                                        fnArgs.results_map)
    /\ UNCHANGED <<fnArgs, taskPc, proc, observed, result, sessionVars, spawns, lastSettled>>

BridgeNext == BridgeApply

BridgeSpec == BridgeInit /\ [][BridgeNext]_vars

(***************************************************************************)
(* print_magi_report as a function of the list it is given                 *)
(***************************************************************************)
\* confidences in hundredths, the thresholds and their neighbours among them
ReportConfidences == {20, 30, 50, 60, 65, 70, 71, 75, 80, 90}

DocScored(c) == JObject([claim |-> "c1", confidence |-> c])

ReportOutcomes(a) ==
    {[agent |-> a, status |-> "ok", output |-> d, latency |-> 1] :
        d \in {DocScored(c) : c \in ReportConfidences}
                 \cup {DocNoConf, DocNoClaim, DocLegacy, DocArray, DocSurrogate}}
    \cup {[agent |-> a, status |-> "error", error |-> "boom", latency |-> 1],
          [agent |-> a, status |-> "timeout", latency |-> TIMEOUT_SECONDS]}

\* the agent of the i-th result of a list
AgentAt(i) == AGENTS[((i - 1) % Len(AGENTS)) + 1].name

\* the lists of n results
RECURSIVE ResultLists(_)
ResultLists(n) ==
    IF n = 0 THEN {<<>>}
    ELSE {Append(l, o) : l \in ResultLists(n - 1), o \in ReportOutcomes(AgentAt(n))}

ReportInit ==
    /\ SessionInit
    /\ \/ \E n \in 0..MaxReportLen : \E l \in ResultLists(n) :
              fnArgs = [kind |-> "report", results |-> List(l)]
       \/ fnArgs = [kind |-> "report", results |-> None]
    /\ fnResult = Unset

ReportApply ==
    /\ fnArgs.kind = "report"
    /\ fnResult = Unset
    /\ fnResult' = print_magi_report(fnArgs.results)
    /\ UNCHANGED <<fnArgs, taskPc, proc, observed, result, sessionVars, spawns, lastSettled>>

ReportNext == ReportApply

ReportSpec == ReportInit /\ [][ReportNext]_vars

(***************************************************************************)
(* Properties                                                              *)
(***************************************************************************)
Tasks == Rounds \X Roster

Ended(r, a) == taskPc[r][a] \in {"returned", "raised", "cancelled"}

Returned(r, a) == result[r][a].kind = "return"

StatusOf(r, a) == result[r][a].outcome.status

Round2Begun == Len(bridge) = Len(AGENTS)

Printed == {out[i] : i \in 1..Len(out)}

\* C1: once run_magi_cycle has merged, the final list holds, for every roster
\* agent in turn, the agent's round-2 outcome when that outcome is ok and the
\* agent's round-1 outcome otherwise, so no failed round-2 outcome is in the
\* list; and a session that began round 2 ends in an exception only when a
\* round-2 call raised, never because of a failure status.
MergeRule ==
    /\ final_results.kind = "list" =>
          /\ Len(final_results.items) = Len(AGENTS)
          /\ \A i \in 1..Len(AGENTS) :
                LET a == AGENTS[i].name IN
                /\ final_results.items[i] =
                      IF StatusOf(2, a) = "ok" THEN result[2][a].outcome
                      ELSE result[1][a].outcome
                /\ final_results.items[i].status = "ok"
    /\ (phase = "Raised" /\ Round2Begun) =>
          \E a \in Roster : result[2][a].kind = "raise"

\* the case of the specification: round 2 of one agent timed out after an ok
\* round 1 with confidence 0.65, round 2 of another agent is ok
MergeRuleWitness ==
    /\ final_results.kind = "list"
    /\ \E a, b \in Roster :
          /\ StatusOf(2, a) = "timeout"
          /\ result[1][a].outcome.output = DocFull
          /\ StatusOf(2, b) = "ok"
          /\ result[2][b].outcome # result[1][b].outcome

\* C2: when every round-1 call has returned and one of them is not ok, the
\* session is in QuorumFailed as soon as it has looked at the results, and no
\* round-2 call is ever started: no round-2 task has run, no round-2 process
\* exists and no bridge prompt was built.
QuorumGate ==
    (/\ phase # "Round1Pending"
     /\ \A a \in Roster : Returned(1, a)
     /\ \E a \in Roster : StatusOf(1, a) # "ok")
    => /\ phase = "QuorumFailed"
       /\ bridge = <<>>
       /\ \A a \in Roster : taskPc[2][a] = "unstarted" /\ proc[2][a] = "none"

\* two of three agents answered ok and main() has ended
QuorumGateWitness ==
    /\ phase = "QuorumFailed"
    /\ mainPc \in {"done", "crashed"}
    /\ Cardinality({a \in Roster : StatusOf(1, a) = "ok"}) = 2

\* C3: a session in QuorumFailed never enters print_magi_report, so no report
\* header is printed, and main() does not end by an unhandled exception.
QuorumFailedIsClean ==
    phase = "QuorumFailed" =>
        /\ "REPORT HEADER" \notin Printed
        /\ mainPc # "crashed"

\* C4: nothing that follows round 1 (the quorum verdict, a bridge prompt, a
\* round-2 task or process) exists while a round-1 call is unsettled: by then
\* every round-1 call has returned and its process is gone.
RoundBarrier ==
    (\/ phase \in {"QuorumFailed", "Round2Pending", "Returned"}
     \/ bridge # <<>>
     \/ \E a \in Roster : taskPc[2][a] # "unstarted" \/ proc[2][a] # "none")
    => \A a \in Roster : taskPc[1][a] = "returned" /\ proc[1][a] = "reaped"

\* a round-2 process is running
RoundBarrierWitness ==
    /\ phase = "Round2Pending"
    /\ \E a \in Roster : proc[2][a] = "running"

\* C5: a call whose process could not be started ends with a typed failure
\* outcome for its agent: it does not raise, and the session is not aborted.
LaunchFailureContained ==
    \A t \in Tasks :
        (Ended(t[1], t[2]) /\ taskPc[t[1]][t[2]] # "cancelled" /\ proc[t[1]][t[2]] = "none")
        => /\ Returned(t[1], t[2])
           /\ StatusOf(t[1], t[2]) \in {"error", "invalid_json", "timeout"}
           /\ phase # "Raised"

\* C6: a call that timed out returns the outcome {agent, status timeout,
\* latency TIMEOUT_SECONDS}, and when it returns its process has been killed
\* and reaped; no other call returns status timeout.
TimeoutOutcome ==
    \A t \in Tasks :
        /\ (observed[t[1]][t[2]] = SawTimeout /\ taskPc[t[1]][t[2]] \in {"returned", "raised"})
           => /\ Returned(t[1], t[2])
              /\ result[t[1]][t[2]].outcome =
                    [agent |-> t[2], status |-> "timeout", latency |-> TIMEOUT_SECONDS]
              /\ proc[t[1]][t[2]] = "reaped"
        /\ (Returned(t[1], t[2]) /\ StatusOf(t[1], t[2]) = "timeout")
           => observed[t[1]][t[2]] = SawTimeout

\* a call has returned the timeout outcome
TimeoutOutcomeWitness ==
    \E t \in Tasks :
        /\ Returned(t[1], t[2])
        /\ StatusOf(t[1], t[2]) = "timeout"
        /\ observed[t[1]][t[2]] = SawTimeout

\* C7: whenever a call has ended, by returning, by raising or by being
\* cancelled, the process it started has been terminated and reaped, and once
\* main() has ended no process of the session is running.
ProcessOwnership ==
    /\ \A t \in Tasks :
          Ended(t[1], t[2]) => proc[t[1]][t[2]] \in {"none", "reaped"}
    /\ mainPc \in {"done", "crashed"} =>
          \A t \in Tasks : proc[t[1]][t[2]] # "running"

\* C8: a call whose process ran to completion returns one outcome, whose
\* status is error for a non-zero exit code, else invalid_json with the raw
\* output when the output does not parse, else ok with the parsed document,
\* whatever JSON value that document is.
StatusClassification ==
    \A t \in Tasks :
        observed[t[1]][t[2]].seen = "completed" =>
            LET pr == observed[t[1]][t[2]]
                parsed == json_loads(pr.stdout.text)
                expected == IF pr.returncode # 0 THEN "error"
                            ELSE IF ~parsed.ok THEN "invalid_json" ELSE "ok"
            IN  /\ Returned(t[1], t[2])
                /\ StatusOf(t[1], t[2]) = expected
                /\ expected = "ok" => result[t[1]][t[2]].outcome.output = parsed.value
                /\ expected = "invalid_json" =>
                      result[t[1]][t[2]].outcome.raw = pr.stdout.text

(***************************************************************************)
(* Properties of create_bridge_prompt                                      *)
(***************************************************************************)
\* the blocks of the prompt that name roster member p
BlocksOf(p) ==
    {i \in 1..Len(fnResult.blocks) : fnResult.blocks[i].node = upper(p)}

\* the place of a block's peer in the mapping
PlaceOf(i) ==
    CHOOSE k \in 1..Len(fnArgs.results_map) :
        upper(fnArgs.results_map[k].k) = fnResult.blocks[i].node

\* C9 as stated: every prompt built has |roster|-1 peer blocks, one for each
\* roster member other than the agent itself, whatever entries the results
\* mapping has, and none for the agent itself.
BridgeCoversRoster ==
    fnResult.kind = "return" =>
        /\ Len(fnResult.blocks) = Len(AGENTS) - 1
        /\ \A p \in Roster \ {fnArgs.agent_name} : Cardinality(BlocksOf(p)) = 1
        /\ BlocksOf(fnArgs.agent_name) = {}

\* C9, amended: every prompt built has one peer block for each entry of the
\* results mapping whose key is not the agent itself, in the order of the
\* mapping, and no other block: a roster member without an entry has no
\* block, so there are |roster|-1 blocks when every other roster member has
\* an entry.
BridgeCoversMap ==
    fnResult.kind = "return" =>
        LET peers == Keys(fnArgs.results_map) \ {fnArgs.agent_name} IN
        /\ Len(fnResult.blocks) = Cardinality(peers)
        /\ \A p \in Roster :
              Cardinality(BlocksOf(p)) = IF p \in peers THEN 1 ELSE 0
        /\ \A i, j \in 1..Len(fnResult.blocks) : i < j => PlaceOf(i) < PlaceOf(j)
        /\ Roster \ {fnArgs.agent_name} \subseteq peers =>
              Len(fnResult.blocks) = Len(AGENTS) - 1

\* a prompt built from a mapping that has the agent's own entry and lacks one
\* of its peers
BridgeCoversMapWitness ==
    /\ fnResult.kind = "return"
    /\ fnArgs.agent_name \in Keys(fnArgs.results_map)
    /\ Len(fnArgs.results_map) = 2
    /\ Len(fnResult.blocks) = 1

\* the document of a mapping entry, if the entry has one
HasOutput(data) == "output" \in DOMAIN data

NormalizedClaim(data) ==
    /\ data.status = "ok"
    /\ HasOutput(data)
    /\ data.output.kind = "object"
    /\ {"claim", "confidence"} \subseteq DOMAIN data.output.obj

Placeholder(b) ==
    b.claim = "No claim provided" /\ b.confidence = 0 /\ b.failure_modes = ""

Carries(b, fields) ==
    /\ b.claim = fields.claim
    /\ b.confidence = fields.confidence
    /\ b.failure_modes = IF "failure_modes" \in DOMAIN fields
                         THEN join(fields.failure_modes) ELSE ""

\* the entries of the mapping other than the agent's own, each with its block
PeerEntries ==
    {k \in 1..Len(fnArgs.results_map) :
        fnArgs.results_map[k].k # fnArgs.agent_name}

BlockFor(k) ==
    fnResult.blocks[CHOOSE i \in 1..Len(fnResult.blocks) :
                       fnResult.blocks[i].node = upper(fnArgs.results_map[k].k)]

\* C10: create_bridge_prompt builds the prompt whatever the mapping holds, and
\* in it the block of a peer whose outcome is ok with both claim and
\* confidence carries the peer's claim, confidence and failure modes, and the
\* block of any other peer is the whole placeholder.
PeerContentWhole ==
    fnResult # Unset =>
        /\ fnResult.kind = "return"
        /\ \A k \in PeerEntries :
              LET data == fnArgs.results_map[k].v IN
              IF NormalizedClaim(data)
              THEN Carries(BlockFor(k), data.output.obj)
              ELSE Placeholder(BlockFor(k))

(***************************************************************************)
(* The report                                                              *)
(***************************************************************************)
\* a report that ran to its end
Reported == fnArgs.kind = "report" /\ fnResult # Unset /\ fnResult.end.kind = "return"

\* print_magi_report was given a list and has ended, one way or the other
ReportEnded == fnArgs.kind = "report" /\ fnResult # Unset /\ fnArgs.results.kind = "list"

ReportedItems == fnArgs.results.items

\* the confidence field of the document of an outcome, in hundredths
HasConfidence(data) ==
    /\ HasOutput(data)
    /\ data.output.kind = "object"
    /\ "confidence" \in DOMAIN data.output.obj

Contribution(data) == IF HasConfidence(data) THEN data.output.obj.confidence ELSE 0

RECURSIVE SumOfContributions(_)
SumOfContributions(items) ==
    IF Len(items) = 0 THEN 0
    ELSE Contribution(items[1]) + SumOfContributions(Tail(items))

\* C11: for every list of outcomes the report is completed, and the aggregate
\* is the sum of the confidences of the outcomes divided by the length of the
\* whole list: an outcome without a usable confidence is counted and adds
\* nothing, and the empty list gives 0.0. The printed score is that quotient
\* to the nearest ten-thousandth.
AggregateDenominator ==
    ReportEnded =>
        /\ fnResult.end.kind = "return"
        /\ LET n == Len(ReportedItems)
               sum == SumOfContributions(ReportedItems)
           IN  /\ fnResult.valid_nodes = n
               /\ fnResult.total_confidence.h = sum
               /\ n = 0 => fnResult.avg_score = 0
               /\ n > 0 => 2 * (n * fnResult.avg_score - 100 * sum) \in (-n)..n

\* C12: every outcome of the list contributes to the aggregate: the
\* confidence of its document when the document has both claim and
\* confidence, and 0.0 otherwise, so that a document with a confidence and no
\* claim, or a document that is no object, contributes 0.0.
ConfidenceOfClaimsOnly ==
    ReportEnded =>
        /\ fnResult.end.kind = "return"
        /\ \A i \in 1..Len(ReportedItems) :
              fnResult.nodes[i].confidence =
                  IF NormalizedClaim(ReportedItems[i])
                  THEN ReportedItems[i].output.obj.confidence ELSE 0

\* C13: the tier follows the average of the confidences, in hundredths, with
\* inclusive lower bounds: approval from 0.70, conditional approval from
\* 0.50, deadlock from 0.30, rejection below, and rejection for no outcome.
TierMapping ==
    Reported =>
        LET n == Len(ReportedItems)
            sum == SumOfContributions(ReportedItems)
        IN  fnResult.status =
               IF n > 0 /\ sum >= APPROVAL * n
               THEN ">> RESOLUTION: UNANIMOUS APPROVAL <<"
               ELSE IF n > 0 /\ sum >= MAJORITY * n
               THEN ">> RESOLUTION: MAJORITY APPROVAL (CONDITIONAL) <<"
               ELSE IF n > 0 /\ sum >= DEADLOCK * n
               THEN ">> RESOLUTION: DEADLOCK / HUMAN INTERVENTION REQUIRED <<"
               ELSE ">> RESOLUTION: REJECTION <<"

(***************************************************************************)
(* The session as a whole                                                  *)
(***************************************************************************)
\* C14: the list run_magi_cycle returns has one entry for each agent of the
\* roster, in the order of the roster, whatever the order in which the calls
\* ended.
FinalListShape ==
    final_results.kind = "list" =>
        /\ Len(final_results.items) = Len(AGENTS)
        /\ \A i \in 1..Len(AGENTS) : final_results.items[i].agent = AGENTS[i].name
        /\ \A i, j \in 1..Len(final_results.items) :
              final_results.items[i].agent = final_results.items[j].agent => i = j

\* a list returned after round 2 in which the first agent of the roster was
\* the last to end, and the last agent fell back on round 1
FinalListShapeWitness ==
    /\ phase = "Returned"
    /\ final_results.kind = "list"
    /\ lastSettled = AGENTS[1].name
    /\ StatusOf(2, AGENTS[3].name) = "timeout"
    /\ final_results.items[3] = result[1][AGENTS[3].name].outcome

RECURSIVE SumSpawns(_, _)
SumSpawns(r, i) ==
    IF i = 0 THEN 0 ELSE spawns[r][AGENTS[i].name] + SumSpawns(r, i - 1)

\* the processes the session has started
Launched == SumSpawns(1, Len(AGENTS)) + SumSpawns(2, Len(AGENTS))

\* C15: no call is started over: a task starts at most one process, a
\* round-2 process exists only after the quorum check passed, a session that
\* failed the quorum check has started one process for each agent and no
\* more, a session that returned its list has started two for each agent, and
\* no session starts more.
NoRetries ==
    /\ \A t \in Tasks : spawns[t[1]][t[2]] <= 1
    /\ Launched <= 2 * Len(AGENTS)
    /\ \A a \in Roster :
          spawns[2][a] > 0 => /\ ~QuorumMissed(results_r1_map)
                              /\ phase \in {"Round2Pending", "Returned", "Raised"}
    /\ phase \in {"QuorumFailed", "Round2Pending", "Returned"} =>
          \A a \in Roster : spawns[1][a] = 1
    /\ phase = "QuorumFailed" => Launched = Len(AGENTS)
    /\ phase = "Returned" => Launched = 2 * Len(AGENTS)

\* a session that returned its list after a round-2 call timed out and a
\* round-2 call failed, each having started its one process
NoRetriesWitness ==
    /\ phase = "Returned"
    /\ Launched = 2 * Len(AGENTS)
    /\ \E a, b \in Roster :
          /\ StatusOf(2, a) = "timeout"
          /\ StatusOf(2, b) = "error"
          /\ spawns[2][a] = 1
          /\ spawns[2][b] = 1

\* the step in which the wait of task <<r, a>> times out, or in which the
\* call returns once the killed process is collected
TimeoutStep(r, a) ==
    \/ observed[r][a] # SawTimeout /\ observed'[r][a] = SawTimeout
    \/ taskPc[r][a] = "reaping" /\ taskPc'[r][a] = "returned"

\* what a returned call has to say about its own process
OwnStatus(r, a) ==
    IF observed[r][a] = SawTimeout
    THEN result[r][a] = call_agent_timeout(a)
    ELSE LET pr == observed[r][a] IN
         /\ pr # SawNothing
         /\ result[r][a] = call_agent_completed(a, pr.returncode, pr.stdout,
                                                pr.stderr, pr.elapsed)

\* C16: the timeout of one call and the kill of its process leave every
\* other call and every other process as they are, and a call that returns
\* does so with the outcome of its own process.
TimeoutIsolation ==
    /\ [][\A t \in Tasks :
             TimeoutStep(t[1], t[2]) =>
                 \A u \in Tasks \ {t} :
                     /\ taskPc'[u[1]][u[2]] = taskPc[u[1]][u[2]]
                     /\ proc'[u[1]][u[2]] = proc[u[1]][u[2]]
                     /\ observed'[u[1]][u[2]] = observed[u[1]][u[2]]
                     /\ result'[u[1]][u[2]] = result[u[1]][u[2]]]_vars
    /\ [](\A t \in Tasks : Returned(t[1], t[2]) => OwnStatus(t[1], t[2]))

\* in round 1 an agent has timed out and its process was killed and
\* collected, and a sibling has returned ok after it
TimeoutIsolationWitness ==
    /\ phase = "Round1Pending"
    /\ \E a, b \in Roster :
          /\ a # b
          /\ Returned(1, a) /\ StatusOf(1, a) = "timeout"
          /\ proc[1][a] = "reaped"
          /\ Returned(1, b) /\ StatusOf(1, b) = "ok"
          /\ lastSettled = b

\* C17: a session ends in one of two states, its list returned and reported
\* or the quorum check failed, and in no other.
SessionEndsAggregatedOrQuorumFailed ==
    (mainPc \in {"done", "crashed", "hung"} /\ phase # "NotStarted") =>
        /\ phase \in {"Returned", "QuorumFailed"}
        /\ mainPc # "hung"

\* C18 as stated: after an empty directive, from the arguments or from the
\* prompt, nothing at all has been printed and no process was started.
EmptyDirectiveSilent ==
    (mainPc # "start" /\ user_prompt = "") =>
        /\ out = <<>>
        /\ Launched = 0

\* C18, amended: after an empty directive main() has ended without a
\* session: no round begins, no process is started and nothing is printed
\* but the banner and the prompt with which an interactive run asked for the
\* directive; a run that took the directive from its arguments prints nothing.
EmptyDirectiveNoSession ==
    (mainPc # "start" /\ user_prompt = "") =>
        /\ mainPc = "done"
        /\ phase = "NotStarted"
        /\ Launched = 0
        /\ \A t \in Tasks : taskPc[t[1]][t[2]] = "unstarted" /\ proc[t[1]][t[2]] = "none"
        /\ final_results = Unset
        /\ out \in {<<>>, <<"MAGI SYSTEM TERMINAL", "INPUT DIRECTIVE">>}

\* an interactive run that was given the empty directive
EmptyDirectiveNoSessionWitness ==
    /\ mainPc = "done"
    /\ user_prompt = ""
    /\ out = <<"MAGI SYSTEM TERMINAL", "INPUT DIRECTIVE">>
    /\ Launched = 0

\* C19: once round 2 has begun results_r1_map has an ok entry for every
\* agent of the roster, so the lookup for a failed round-2 result never
\* misses; every entry of the list returned is ok and the list has one entry
\* for each agent.
FallbackDefined ==
    /\ phase \in {"Round2Pending", "Returned"} =>
          /\ Keys(results_r1_map) = Roster
          /\ \A i \in 1..Len(results_r1_map) :
                /\ results_r1_map[i].v.status = "ok"
                /\ results_r1_map[i].v.agent = results_r1_map[i].k
    /\ final_results # Raise("KeyError")
    /\ final_results.kind = "list" =>
          /\ Len(final_results.items) = Cardinality(Roster)
          /\ \A i \in 1..Len(final_results.items) :
                final_results.items[i].status = "ok"

\* a list returned after a round-2 result that is not JSON and a round-2
\* result with a non-zero exit, both replaced by ok entries of round 1
FallbackDefinedWitness ==
    /\ phase = "Returned"
    /\ \E a, b \in Roster :
          /\ StatusOf(2, a) = "invalid_json"
          /\ StatusOf(2, b) = "error"
          /\ Lookup(results_r1_map, a).status = "ok"
          /\ \E i, j \in 1..Len(final_results.items) :
                /\ final_results.items[i] = Lookup(results_r1_map, a)
                /\ final_results.items[j] = Lookup(results_r1_map, b)

\* the round-1 outcomes of the peers of agent x, in roster order
PeersMap(x) ==
    LET peers == SelectSeq(AGENTS, LAMBDA ag : ag.name # x /\ StatusOf(1, ag.name) = "ok")
    IN  [i \in 1..Len(peers) |-> Item(peers[i].name, result[1][peers[i].name].outcome)]

\* the list the outcomes of the two rounds determine
MergedOutcomes ==
    [i \in 1..Len(AGENTS) |->
        IF StatusOf(2, AGENTS[i].name) = "ok" THEN result[2][AGENTS[i].name].outcome
        ELSE result[1][AGENTS[i].name].outcome]

\* C20: the bridge prompts, the list returned and the aggregate are
\* functions of the outcomes of the calls, whatever the order in which the
\* calls ended: the prompt of an agent is the one built from the directive
\* and the round-1 outcomes of its peers alone, and stays so through round 2;
\* the list is the merge of the two outcomes of each agent in roster order;
\* the resolution printed is the one of that list.
DeterminedByOutcomes ==
    /\ phase \in {"Round2Pending", "Returned"} =>
          /\ Len(bridge) = Len(AGENTS)
          /\ \A i \in 1..Len(AGENTS) :
                bridge[i] = Item(AGENTS[i].name,
                                 create_bridge_prompt(AGENTS[i].name, user_prompt,
                                                      PeersMap(AGENTS[i].name)))
    /\ phase = "Returned" => final_results = List(MergedOutcomes)
    /\ (phase = "Returned" /\ mainPc = "done") =>
          out[Len(out)] = print_magi_report(List(MergedOutcomes)).status

\* round 2 is about to start after a round 1 in which the first agent of
\* the roster ended last, and the prompt of the last agent carries the
\* first agent's claim
DeterminedByOutcomesWitness ==
    /\ phase = "Round2Pending"
    /\ \A a \in Roster : taskPc[2][a] = "unstarted"
    /\ lastSettled = AGENTS[1].name
    /\ Len(bridge) = Len(AGENTS)
    /\ bridge[3].v.kind = "return"
    /\ bridge[3].v.blocks[1].node = upper(AGENTS[1].name)
    /\ result[1][AGENTS[1].name].outcome.output # result[1][AGENTS[2].name].outcome.output

====
